---- MODULE Spec2Model ----
(***************************************************************************)
(* Model of the SAM PIO pin-configuration driver                           *)
(* (hardware/sam/system/libsam/source/pio.c).                              *)
(*                                                                         *)
(* A pin mask (uint32_t dwMask) is the set of the bit positions that are   *)
(* 1, so that | is \cup, & is \cap and ~ is the complement in Pins.  The   *)
(* driver keeps no state of its own: the state is the register block of    *)
(* the controller the caller hands in.  Every store to a register is       *)
(* appended to a trace, so the order of the writes of a call is visible.   *)
(***************************************************************************)
EXTENDS Integers, Sequences, FiniteSets

\* Number of pin lines of the modelled controller (32 on the device).
NumPins == 2

\* Longest sequence of driver calls explored from the initial state.
MaxCalls == 2

Pins == 0 .. (NumPins - 1)
Masks == SUBSET Pins

VARIABLES
    pio,      \* register block of the controller: status and read/write registers
    pre,      \* register block as it was when the most recent call started
    trace,    \* register writes of the most recent call, in program order
    ret,      \* value returned by the most recent call ("void" when none)
    fault,    \* TRUE when the most recent call trapped on a division by zero
    call,     \* the most recent call: operation and arguments
    lastConfig, \* per pin: type and mask of the most recent successful
                \* PIO_Configure whose mask held the pin
    initial,  \* register block the behaviour started from
    ncalls    \* number of calls made so far

vars == <<pio, pre, trace, ret, fault, call, lastConfig, initial, ncalls>>

(***************************************************************************)
(* Types of the interface.                                                 *)
(***************************************************************************)
\* The enumerators of EPioType that pio.c names in its switch statements.
PeriphTypes == {"PIO_PERIPH_A", "PIO_PERIPH_B", "PIO_PERIPH_C", "PIO_PERIPH_D"}
OutputTypes == {"PIO_OUTPUT_0", "PIO_OUTPUT_1"}
NamedTypes == PeriphTypes \cup OutputTypes \cup {"PIO_INPUT", "PIO_NOT_A_PIN"}
\* A value of the enum type that is none of its enumerators.
OutOfRangeType == "OUT_OF_RANGE"
EPioType == NamedTypes \cup {OutOfRangeType}

\* dwAttribute is a bit set of these flags; (dwAttribute & F) # 0 is F \in attr.
AttributeFlags == {"PIO_PULLUP", "PIO_DEGLITCH", "PIO_OPENDRAIN", "PIO_DEBOUNCE"}
Attributes == SUBSET AttributeFlags

(***************************************************************************)
(* Bit operations on masks.                                                *)
(***************************************************************************)
BitAnd(a, b) == a \cap b
BitOr(a, b) == a \cup b
BitNot(a) == Pins \ a

(***************************************************************************)
(* 32-bit unsigned values (uint32_t dwCuttOff) as two 16-bit halves.       *)
(***************************************************************************)
Half == 2 ^ 16
U32(h, l) == [hi |-> h, lo |-> l]
U32IsZero(x) == x.hi = 0 /\ x.lo = 0
\* 2 * x modulo 2^32
U32Twice(x) ==
    LET l == 2 * x.lo
    IN  [hi |-> (2 * x.hi + (l \div Half)) % Half, lo |-> l % Half]
\* n / d for 0 <= n < 2^16 and d # 0, unsigned
U32DivSmall(n, d) == IF d.hi # 0 THEN 0 ELSE n \div d.lo

(***************************************************************************)
(* The register block.                                                     *)
(***************************************************************************)
\* Write-only command registers and the status register each one acts on.
SetRegs == {"PIO_PER", "PIO_OER", "PIO_SODR"}
ClearRegs == {"PIO_PDR", "PIO_ODR", "PIO_CODR"}
StatusOf(reg) ==
    CASE reg \in {"PIO_PER", "PIO_PDR"} -> "PIO_PSR"
      [] reg \in {"PIO_OER", "PIO_ODR"} -> "PIO_OSR"
      [] reg \in {"PIO_SODR", "PIO_CODR"} -> "PIO_ODSR"

\* Storing a mask in an enable/set register sets those bits of its status
\* register; storing it in the matching disable/clear register clears them.
\* The other command registers (interrupt, pull-up, multi-drive, filter)
\* act on status that the driver never reads; their writes are kept in the
\* trace only.
CommandEffect(regs, reg, val) ==
    IF reg \in SetRegs THEN [regs EXCEPT ![StatusOf(reg)] = @ \cup val]
    ELSE IF reg \in ClearRegs THEN [regs EXCEPT ![StatusOf(reg)] = @ \ val]
    ELSE regs

\* pPio->REG = val for a command register
WriteCommand(m, reg, val) ==
    [m EXCEPT !.pio = CommandEffect(m.pio, reg, val),
              !.trace = Append(m.trace, <<reg, val>>)]

\* pPio->REG = val for a read/write register (PIO_ABCDSR[0], PIO_ABCDSR[1], PIO_SCDR)
WriteReg(m, reg, val) ==
    [m EXCEPT !.pio = [m.pio EXCEPT ![reg] = val],
              !.trace = Append(m.trace, <<reg, val>>)]

\* The machine a call starts on: the register block and an empty trace.
Start(regs) == [pio |-> regs, trace |-> <<>>, fault |-> FALSE]

(***************************************************************************)
(* The operations of pio.c.  Each takes the machine m it runs on and       *)
(* gives the machine it leaves.                                            *)
(***************************************************************************)
PIO_DisableInterrupt(m, dwMask) == WriteCommand(m, "PIO_IDR", dwMask)

PIO_PullUp(m, dwMask, dwPullUpEnable) ==
    IF dwPullUpEnable
    THEN WriteCommand(m, "PIO_PUER", dwMask)
    ELSE WriteCommand(m, "PIO_PUDR", dwMask)

\* The numerator and the mask of the divider computation.
SlowClockConstant == 32678
DividerMask == 16383

\* ((32678 / (2 * dwCuttOff)) - 1) & 0x3FFF in unsigned 32-bit arithmetic,
\* for 2 * dwCuttOff # 0 modulo 2^32.  x & 0x3FFF is x modulo 2^14, also for
\* the wrapped 0 - 1.
DebounceDivider(dwCuttOff) ==
    (U32DivSmall(SlowClockConstant, U32Twice(dwCuttOff)) - 1) % (DividerMask + 1)

\* Variant of PIO_SetDebounceFilter: the divisor is dwCuttOff, the factor 2
\* is left out (32678/(dwCuttOff)).
PIO_SetDebounceFilter_UndoubledDivisor(m, dwMask, dwCuttOff) ==
    LET m1 == WriteCommand(m, "PIO_IFSCER", dwMask)
    IN  IF U32IsZero(dwCuttOff)
        THEN [m1 EXCEPT !.fault = TRUE]
        ELSE WriteReg(m1, "PIO_SCDR",
                      (U32DivSmall(SlowClockConstant, dwCuttOff) - 1) % (DividerMask + 1))

\* The division traps when the divisor 2 * dwCuttOff is 0 modulo 2^32: the
\* call ends in the division-by-zero fault, after the store to PIO_IFSCER
\* and before the store to PIO_SCDR.
PIO_SetDebounceFilter(m, dwMask, dwCuttOff) ==
    LET m1 == WriteCommand(m, "PIO_IFSCER", dwMask)
    IN  IF U32IsZero(U32Twice(dwCuttOff))
        THEN [m1 EXCEPT !.fault = TRUE]
        ELSE WriteReg(m1, "PIO_SCDR", DebounceDivider(dwCuttOff))

PIO_Set(m, dwMask) == WriteCommand(m, "PIO_SODR", dwMask)

PIO_Get(regs, dwType, dwMask) ==
    LET dwReg == IF dwType = "PIO_OUTPUT_0" \/ dwType = "PIO_OUTPUT_1"
                 THEN regs.PIO_ODSR
                 ELSE regs.PIO_PDSR
    IN  IF BitAnd(dwReg, dwMask) = {} THEN 0 ELSE 1

PIO_Clear(m, dwMask) == WriteCommand(m, "PIO_CODR", dwMask)

\* Variant of SelectorCleared: reg = ~dwMask, the old content is not kept.
SelectorCleared_Overwrite(m, reg, dwMask) == WriteReg(m, reg, BitNot(dwMask))

\* reg &= (~dwMask & dwABCDSR), dwABCDSR having been read from reg
SelectorCleared(m, reg, dwMask) ==
    LET dwABCDSR == m.pio[reg]
    IN  WriteReg(m, reg, BitAnd(m.pio[reg], BitAnd(BitNot(dwMask), dwABCDSR)))

\* reg = (dwMask | dwABCDSR), dwABCDSR having been read from reg
SelectorSet(m, reg, dwMask) ==
    LET dwABCDSR == m.pio[reg]
    IN  WriteReg(m, reg, BitOr(dwMask, dwABCDSR))

\* Variant of PIO_SetPeripheral: the invalid types leave the switch with
\* break instead of return, and reach the store to PIO_PDR.
PIO_SetPeripheral_BreakOnInvalid(m, dwType, dwMask) ==
    LET m1 == WriteCommand(m, "PIO_IDR", dwMask)
        m3 == CASE dwType = "PIO_PERIPH_A" ->
                     SelectorCleared(SelectorCleared(m1, "PIO_ABCDSR0", dwMask),
                                     "PIO_ABCDSR1", dwMask)
                [] dwType = "PIO_PERIPH_B" ->
                     SelectorCleared(SelectorSet(m1, "PIO_ABCDSR0", dwMask),
                                     "PIO_ABCDSR1", dwMask)
                [] dwType = "PIO_PERIPH_C" ->
                     SelectorSet(SelectorCleared(m1, "PIO_ABCDSR0", dwMask),
                                 "PIO_ABCDSR1", dwMask)
                [] dwType = "PIO_PERIPH_D" ->
                     SelectorSet(SelectorSet(m1, "PIO_ABCDSR0", dwMask),
                                 "PIO_ABCDSR1", dwMask)
                [] OTHER -> m1
    IN  WriteCommand(m3, "PIO_PDR", dwMask)

PIO_SetPeripheral(m, dwType, dwMask) ==
    LET m1 == WriteCommand(m, "PIO_IDR", dwMask)
    IN  CASE dwType = "PIO_PERIPH_A" ->
               LET m2 == SelectorCleared(m1, "PIO_ABCDSR0", dwMask)
                   m3 == SelectorCleared(m2, "PIO_ABCDSR1", dwMask)
               IN  WriteCommand(m3, "PIO_PDR", dwMask)
          [] dwType = "PIO_PERIPH_B" ->
               LET m2 == SelectorSet(m1, "PIO_ABCDSR0", dwMask)
                   m3 == SelectorCleared(m2, "PIO_ABCDSR1", dwMask)
               IN  WriteCommand(m3, "PIO_PDR", dwMask)
          [] dwType = "PIO_PERIPH_C" ->
               LET m2 == SelectorCleared(m1, "PIO_ABCDSR0", dwMask)
                   m3 == SelectorSet(m2, "PIO_ABCDSR1", dwMask)
               IN  WriteCommand(m3, "PIO_PDR", dwMask)
          [] dwType = "PIO_PERIPH_D" ->
               LET m2 == SelectorSet(m1, "PIO_ABCDSR0", dwMask)
                   m3 == SelectorSet(m2, "PIO_ABCDSR1", dwMask)
               IN  WriteCommand(m3, "PIO_PDR", dwMask)
          [] dwType \in {"PIO_INPUT", "PIO_OUTPUT_0", "PIO_OUTPUT_1", "PIO_NOT_A_PIN"} ->
               m1
          [] OTHER ->
               \* no case of the switch matches: control reaches the store to PIO_PDR
               WriteCommand(m1, "PIO_PDR", dwMask)

\* Variant of PIO_SetInput: PIO_DEBOUNCE is tested before PIO_DEGLITCH.
PIO_SetInput_DebounceFirst(m, dwMask, dwAttribute) ==
    LET m1 == PIO_DisableInterrupt(m, dwMask)
        m2 == PIO_PullUp(m1, dwMask, "PIO_PULLUP" \in dwAttribute)
        m3 == IF dwAttribute \cap {"PIO_DEGLITCH", "PIO_DEBOUNCE"} # {}
              THEN WriteCommand(m2, "PIO_IFER", dwMask)
              ELSE WriteCommand(m2, "PIO_IFDR", dwMask)
        m4 == IF "PIO_DEBOUNCE" \in dwAttribute
              THEN WriteCommand(m3, "PIO_IFSCER", dwMask)
              ELSE IF "PIO_DEGLITCH" \in dwAttribute
                   THEN WriteCommand(m3, "PIO_IFSCDR", dwMask)
                   ELSE m3
        m5 == WriteCommand(m4, "PIO_ODR", dwMask)
    IN  WriteCommand(m5, "PIO_PER", dwMask)

PIO_SetInput(m, dwMask, dwAttribute) ==
    LET m1 == PIO_DisableInterrupt(m, dwMask)
        m2 == PIO_PullUp(m1, dwMask, "PIO_PULLUP" \in dwAttribute)
        m3 == IF dwAttribute \cap {"PIO_DEGLITCH", "PIO_DEBOUNCE"} # {}
              THEN WriteCommand(m2, "PIO_IFER", dwMask)
              ELSE WriteCommand(m2, "PIO_IFDR", dwMask)
        m4 == IF "PIO_DEGLITCH" \in dwAttribute
              THEN WriteCommand(m3, "PIO_IFSCDR", dwMask)
              ELSE IF "PIO_DEBOUNCE" \in dwAttribute
                   THEN WriteCommand(m3, "PIO_IFSCER", dwMask)
                   ELSE m3
        m5 == WriteCommand(m4, "PIO_ODR", dwMask)
    IN  WriteCommand(m5, "PIO_PER", dwMask)

\* Variant of PIO_SetOutput: the output is enabled before the level is set.
PIO_SetOutput_EnableBeforeLevel(m, dwMask, dwDefaultValue, dwMultiDriveEnable, dwPullUpEnable) ==
    LET m1 == PIO_DisableInterrupt(m, dwMask)
        m2 == PIO_PullUp(m1, dwMask, dwPullUpEnable)
        m3 == IF dwMultiDriveEnable
              THEN WriteCommand(m2, "PIO_MDER", dwMask)
              ELSE WriteCommand(m2, "PIO_MDDR", dwMask)
        m4 == WriteCommand(m3, "PIO_OER", dwMask)
        m5 == IF dwDefaultValue
              THEN WriteCommand(m4, "PIO_SODR", dwMask)
              ELSE WriteCommand(m4, "PIO_CODR", dwMask)
    IN  WriteCommand(m5, "PIO_PER", dwMask)

PIO_SetOutput(m, dwMask, dwDefaultValue, dwMultiDriveEnable, dwPullUpEnable) ==
    LET m1 == PIO_DisableInterrupt(m, dwMask)
        m2 == PIO_PullUp(m1, dwMask, dwPullUpEnable)
        m3 == IF dwMultiDriveEnable
              THEN WriteCommand(m2, "PIO_MDER", dwMask)
              ELSE WriteCommand(m2, "PIO_MDDR", dwMask)
        m4 == IF dwDefaultValue
              THEN WriteCommand(m3, "PIO_SODR", dwMask)
              ELSE WriteCommand(m3, "PIO_CODR", dwMask)
        m5 == WriteCommand(m4, "PIO_OER", dwMask)
    IN  WriteCommand(m5, "PIO_PER", dwMask)

\* Variant of PIO_Configure: the default branch breaks instead of returning 0.
PIO_Configure_DefaultSucceeds(m, dwType, dwMask, dwAttribute) ==
    CASE dwType \in {"PIO_PERIPH_A", "PIO_PERIPH_B", "PIO_PERIPH_C", "PIO_PERIPH_D"} ->
           LET m1 == PIO_SetPeripheral(m, dwType, dwMask)
               m2 == PIO_DisableInterrupt(m1, dwMask)
           IN  <<PIO_PullUp(m2, dwMask, "PIO_PULLUP" \in dwAttribute), 1>>
      [] dwType = "PIO_INPUT" ->
           <<PIO_SetInput(m, dwMask, dwAttribute), 1>>
      [] dwType \in {"PIO_OUTPUT_0", "PIO_OUTPUT_1"} ->
           <<PIO_SetOutput(m, dwMask, dwType = "PIO_OUTPUT_1",
                           "PIO_OPENDRAIN" \in dwAttribute,
                           "PIO_PULLUP" \in dwAttribute), 1>>
      [] OTHER -> <<m, 1>>

\* Variant of PIO_Configure: for a peripheral the pull-up is enabled by any
\* attribute (dwAttribute instead of dwAttribute & PIO_PULLUP).
PIO_Configure_PullUpOnAnyAttribute(m, dwType, dwMask, dwAttribute) ==
    CASE dwType \in {"PIO_PERIPH_A", "PIO_PERIPH_B", "PIO_PERIPH_C", "PIO_PERIPH_D"} ->
           LET m1 == PIO_SetPeripheral(m, dwType, dwMask)
               m2 == PIO_DisableInterrupt(m1, dwMask)
           IN  <<PIO_PullUp(m2, dwMask, dwAttribute # {}), 1>>
      [] dwType = "PIO_INPUT" ->
           <<PIO_SetInput(m, dwMask, dwAttribute), 1>>
      [] dwType \in {"PIO_OUTPUT_0", "PIO_OUTPUT_1"} ->
           <<PIO_SetOutput(m, dwMask, dwType = "PIO_OUTPUT_1",
                           "PIO_OPENDRAIN" \in dwAttribute,
                           "PIO_PULLUP" \in dwAttribute), 1>>
      [] OTHER -> <<m, 0>>

\* Variant of PIO_Configure: the default level is (dwType == PIO_OUTPUT_0).
PIO_Configure_LevelInverted(m, dwType, dwMask, dwAttribute) ==
    CASE dwType \in {"PIO_PERIPH_A", "PIO_PERIPH_B", "PIO_PERIPH_C", "PIO_PERIPH_D"} ->
           LET m1 == PIO_SetPeripheral(m, dwType, dwMask)
               m2 == PIO_DisableInterrupt(m1, dwMask)
           IN  <<PIO_PullUp(m2, dwMask, "PIO_PULLUP" \in dwAttribute), 1>>
      [] dwType = "PIO_INPUT" ->
           <<PIO_SetInput(m, dwMask, dwAttribute), 1>>
      [] dwType \in {"PIO_OUTPUT_0", "PIO_OUTPUT_1"} ->
           <<PIO_SetOutput(m, dwMask, dwType = "PIO_OUTPUT_0",
                           "PIO_OPENDRAIN" \in dwAttribute,
                           "PIO_PULLUP" \in dwAttribute), 1>>
      [] OTHER -> <<m, 0>>

\* The machine PIO_Configure leaves, paired with the value it returns.
PIO_Configure(m, dwType, dwMask, dwAttribute) ==
    CASE dwType \in {"PIO_PERIPH_A", "PIO_PERIPH_B", "PIO_PERIPH_C", "PIO_PERIPH_D"} ->
           LET m1 == PIO_SetPeripheral(m, dwType, dwMask)
               m2 == PIO_DisableInterrupt(m1, dwMask)
           IN  <<PIO_PullUp(m2, dwMask, "PIO_PULLUP" \in dwAttribute), 1>>
      [] dwType = "PIO_INPUT" ->
           <<PIO_SetInput(m, dwMask, dwAttribute), 1>>
      [] dwType \in {"PIO_OUTPUT_0", "PIO_OUTPUT_1"} ->
           <<PIO_SetOutput(m, dwMask, dwType = "PIO_OUTPUT_1",
                           "PIO_OPENDRAIN" \in dwAttribute,
                           "PIO_PULLUP" \in dwAttribute), 1>>
      [] OTHER -> <<m, 0>>

\* Variant of PIO_GetOutputDataStatus: the output-status test is left out.
PIO_GetOutputDataStatus_PinStatusOnly(regs, dwMask) ==
    IF BitAnd(regs.PIO_PSR, dwMask) # {} THEN 1 ELSE 0

PIO_GetOutputDataStatus(regs, dwMask) ==
    IF BitAnd(regs.PIO_PSR, dwMask) # {}
    THEN IF BitAnd(regs.PIO_OSR, dwMask) # {} THEN 1 ELSE 0
    ELSE 0

(***************************************************************************)
(* Calls.  A call runs one operation to completion on the register block.  *)
(***************************************************************************)
Return(c, m, r) ==
    /\ pre' = pio
    /\ pio' = m.pio
    /\ trace' = m.trace
    /\ fault' = m.fault
    /\ ret' = r
    /\ call' = c
    /\ ncalls' = ncalls + 1
    /\ initial' = initial

DisableInterruptCall(dwMask) ==
    /\ Return([op |-> "PIO_DisableInterrupt", dwMask |-> dwMask],
              PIO_DisableInterrupt(Start(pio), dwMask), "void")
    /\ UNCHANGED lastConfig

PullUpCall(dwMask, dwPullUpEnable) ==
    /\ Return([op |-> "PIO_PullUp", dwMask |-> dwMask,
               dwPullUpEnable |-> dwPullUpEnable],
              PIO_PullUp(Start(pio), dwMask, dwPullUpEnable), "void")
    /\ UNCHANGED lastConfig

SetDebounceFilterCall(dwMask, dwCuttOff) ==
    /\ Return([op |-> "PIO_SetDebounceFilter", dwMask |-> dwMask,
               dwCuttOff |-> dwCuttOff],
              PIO_SetDebounceFilter(Start(pio), dwMask, dwCuttOff), "void")
    /\ UNCHANGED lastConfig

SetCall(dwMask) ==
    /\ Return([op |-> "PIO_Set", dwMask |-> dwMask],
              PIO_Set(Start(pio), dwMask), "void")
    /\ UNCHANGED lastConfig

GetCall(dwType, dwMask) ==
    /\ Return([op |-> "PIO_Get", dwType |-> dwType, dwMask |-> dwMask],
              Start(pio), PIO_Get(pio, dwType, dwMask))
    /\ UNCHANGED lastConfig

ClearCall(dwMask) ==
    /\ Return([op |-> "PIO_Clear", dwMask |-> dwMask],
              PIO_Clear(Start(pio), dwMask), "void")
    /\ UNCHANGED lastConfig

SetPeripheralCall(dwType, dwMask) ==
    /\ Return([op |-> "PIO_SetPeripheral", dwType |-> dwType, dwMask |-> dwMask],
              PIO_SetPeripheral(Start(pio), dwType, dwMask), "void")
    /\ UNCHANGED lastConfig

SetInputCall(dwMask, dwAttribute) ==
    /\ Return([op |-> "PIO_SetInput", dwMask |-> dwMask,
               dwAttribute |-> dwAttribute],
              PIO_SetInput(Start(pio), dwMask, dwAttribute), "void")
    /\ UNCHANGED lastConfig

SetOutputCall(dwMask, dwDefaultValue, dwMultiDriveEnable, dwPullUpEnable) ==
    /\ Return([op |-> "PIO_SetOutput", dwMask |-> dwMask,
               dwDefaultValue |-> dwDefaultValue,
               dwMultiDriveEnable |-> dwMultiDriveEnable,
               dwPullUpEnable |-> dwPullUpEnable],
              PIO_SetOutput(Start(pio), dwMask, dwDefaultValue,
                            dwMultiDriveEnable, dwPullUpEnable), "void")
    /\ UNCHANGED lastConfig

ConfigureCall(dwType, dwMask, dwAttribute) ==
    LET res == PIO_Configure(Start(pio), dwType, dwMask, dwAttribute)
    IN  /\ Return([op |-> "PIO_Configure", dwType |-> dwType, dwMask |-> dwMask,
                   dwAttribute |-> dwAttribute], res[1], res[2])
        /\ lastConfig' =
               IF res[2] = 1
               THEN [p \in Pins |-> IF p \in dwMask
                                    THEN [type |-> dwType, mask |-> dwMask]
                                    ELSE lastConfig[p]]
               ELSE lastConfig

GetOutputDataStatusCall(dwMask) ==
    /\ Return([op |-> "PIO_GetOutputDataStatus", dwMask |-> dwMask],
              Start(pio), PIO_GetOutputDataStatus(pio, dwMask))
    /\ UNCHANGED lastConfig

(***************************************************************************)
(* Inputs.                                                                 *)
(***************************************************************************)
\* Debounce cut-off frequencies, over the whole range of uint32_t.
CutOffs ==
    {U32(0, 0), U32(0, 1), U32(0, 2), U32(0, 3), U32(0, 7), U32(0, 100),
     U32(0, 1000), U32(0, 8169), U32(0, 8192), U32(0, 16339), U32(0, 16340),
     U32(0, 16384), U32(0, 32678), U32(0, 32768), U32(0, 65535), U32(1, 0),
     U32(32767, 65535), U32(32768, 0), U32(32768, 1), U32(32768, 1000),
     U32(65535, 65535)}

\* A register block whose registers all hold zero.
ZeroRegs ==
    [PIO_PSR |-> {}, PIO_OSR |-> {}, PIO_ODSR |-> {}, PIO_PDSR |-> {},
     PIO_ABCDSR0 |-> {}, PIO_ABCDSR1 |-> {}, PIO_SCDR |-> 0]

\* A register block whose pin registers all hold ones.
OnesRegs ==
    [PIO_PSR |-> Pins, PIO_OSR |-> Pins, PIO_ODSR |-> Pins, PIO_PDSR |-> Pins,
     PIO_ABCDSR0 |-> Pins, PIO_ABCDSR1 |-> Pins, PIO_SCDR |-> DividerMask]

InitFrom(regs) ==
    /\ pio = regs
    /\ pre = regs
    /\ initial = regs
    /\ trace = <<>>
    /\ ret = "void"
    /\ fault = FALSE
    /\ call = [op |-> "none"]
    /\ lastConfig = [p \in Pins |-> [type |-> "none", mask |-> {}]]
    /\ ncalls = 0

(***************************************************************************)
(* Specifications.  The driver is a library: each specification is one way *)
(* of calling it.                                                          *)
(***************************************************************************)
\* Every operation, in any sequence of up to MaxCalls calls, from a blank or
\* a saturated register block.
Init == \E regs \in {ZeroRegs, OnesRegs} : InitFrom(regs)

\* Guards on the number of calls made.
InSequence == ncalls < MaxCalls
FirstCall == ncalls = 0

Next ==
    \/ \E k \in Masks : InSequence /\ DisableInterruptCall(k)
    \/ \E k \in Masks, e \in BOOLEAN : InSequence /\ PullUpCall(k, e)
    \/ \E k \in Masks, c \in CutOffs : InSequence /\ SetDebounceFilterCall(k, c)
    \/ \E k \in Masks : InSequence /\ SetCall(k)
    \/ \E t \in EPioType, k \in Masks : InSequence /\ GetCall(t, k)
    \/ \E k \in Masks : InSequence /\ ClearCall(k)
    \/ \E t \in EPioType, k \in Masks : InSequence /\ SetPeripheralCall(t, k)
    \/ \E k \in Masks, a \in Attributes : InSequence /\ SetInputCall(k, a)
    \/ \E k \in Masks, v \in BOOLEAN, d \in BOOLEAN, u \in BOOLEAN :
           InSequence /\ SetOutputCall(k, v, d, u)
    \/ \E t \in EPioType, k \in Masks, a \in Attributes : InSequence /\ ConfigureCall(t, k, a)
    \/ \E k \in Masks : InSequence /\ GetOutputDataStatusCall(k)

Spec == Init /\ [][Next]_vars

\* One PIO_SetPeripheral call on any content of the selector registers and of
\* the pin-status register.
InitPeripheral ==
    \E s0 \in Masks, s1 \in Masks, psr \in Masks :
        InitFrom([ZeroRegs EXCEPT !.PIO_ABCDSR0 = s0, !.PIO_ABCDSR1 = s1,
                                  !.PIO_PSR = psr])

NextPeripheral ==
    \/ \E t \in EPioType, k \in Masks : FirstCall /\ SetPeripheralCall(t, k)

SpecPeripheral == InitPeripheral /\ [][NextPeripheral]_vars

\* One PIO_SetInput or PIO_SetOutput call on any content of the pin-status,
\* output-status and output-data-status registers.
InitInputOutput ==
    \E psr \in Masks, osr \in Masks, odsr \in Masks :
        InitFrom([ZeroRegs EXCEPT !.PIO_PSR = psr, !.PIO_OSR = osr,
                                  !.PIO_ODSR = odsr])

NextInputOutput ==
    \/ \E k \in Masks, a \in Attributes : FirstCall /\ SetInputCall(k, a)
    \/ \E k \in Masks, v \in BOOLEAN, d \in BOOLEAN, u \in BOOLEAN :
           FirstCall /\ SetOutputCall(k, v, d, u)

SpecInputOutput == InitInputOutput /\ [][NextInputOutput]_vars

\* One PIO_Configure call, with any type, mask and attributes, on any content
\* of the selector registers and of the pin-status register.
NextConfigure ==
    \/ \E t \in EPioType, k \in Masks, a \in Attributes : FirstCall /\ ConfigureCall(t, k, a)

SpecConfigure == InitPeripheral /\ [][NextConfigure]_vars

\* Attribute sets of the calls of a sequence: none and all.
SequenceAttributes == {{}, AttributeFlags}

\* Any sequence of up to MaxCalls PIO_Configure calls on one controller.
NextSequence ==
    \/ \E t \in EPioType, k \in Masks, a \in SequenceAttributes :
           InSequence /\ ConfigureCall(t, k, a)

SpecSequence == Init /\ [][NextSequence]_vars

\* One level or status operation on any content of the four status registers.
InitStatus ==
    \E psr \in Masks, osr \in Masks, odsr \in Masks, pdsr \in Masks :
        InitFrom([ZeroRegs EXCEPT !.PIO_PSR = psr, !.PIO_OSR = osr,
                                  !.PIO_ODSR = odsr, !.PIO_PDSR = pdsr])

NextStatus ==
    \/ \E k \in Masks : FirstCall /\ GetOutputDataStatusCall(k)
    \/ \E t \in EPioType, k \in Masks : FirstCall /\ GetCall(t, k)
    \/ \E k \in Masks : FirstCall /\ SetCall(k)
    \/ \E k \in Masks : FirstCall /\ ClearCall(k)

SpecStatus == InitStatus /\ [][NextStatus]_vars

\* One call of an attribute primitive, from a blank or a saturated block.
NextAttribute ==
    \/ \E k \in Masks, c \in CutOffs : FirstCall /\ SetDebounceFilterCall(k, c)
    \/ \E k \in Masks, e \in BOOLEAN : FirstCall /\ PullUpCall(k, e)
    \/ \E k \in Masks : FirstCall /\ DisableInterruptCall(k)

SpecAttribute == Init /\ [][NextAttribute]_vars

(***************************************************************************)
(* Properties.                                                             *)
(***************************************************************************)
\* The write w = <<register, value>> is among the writes of the last call.
Written(w) == \E i \in 1 .. Len(trace) : trace[i] = w

\* The registers the last call wrote, in order.
TraceRegs == [i \in 1 .. Len(trace) |-> trace[i][1]]

\* Truth table of the peripheral selectors: <<selector0 bit, selector1 bit>>.
SelectorCode(type) ==
    CASE type = "PIO_PERIPH_A" -> <<0, 0>>
      [] type = "PIO_PERIPH_B" -> <<1, 0>>
      [] type = "PIO_PERIPH_C" -> <<0, 1>>
      [] type = "PIO_PERIPH_D" -> <<1, 1>>

\* The bit of pin p in the mask or register content r.
Bit(r, p) == IF p \in r THEN 1 ELSE 0

\* C1: after SetPeripheral(handle, role, m) with a peripheral role, each
\* selector register is (existing | m) where the truth table gives 1 and
\* (existing & ~m) where it gives 0, so the bits at m hold the role's code and
\* the bits outside m are unchanged, and m is written to the pin-disable
\* register.
C1_SetPeripheralSelectors ==
    (call.op = "PIO_SetPeripheral" /\ call.dwType \in PeriphTypes) =>
        LET k == call.dwMask
            code == SelectorCode(call.dwType)
        IN  /\ pio.PIO_ABCDSR0 = IF code[1] = 1 THEN pre.PIO_ABCDSR0 \cup k
                                                ELSE pre.PIO_ABCDSR0 \ k
            /\ pio.PIO_ABCDSR1 = IF code[2] = 1 THEN pre.PIO_ABCDSR1 \cup k
                                                ELSE pre.PIO_ABCDSR1 \ k
            /\ \A p \in Pins :
                  IF p \in k
                  THEN <<Bit(pio.PIO_ABCDSR0, p), Bit(pio.PIO_ABCDSR1, p)>> = code
                  ELSE /\ Bit(pio.PIO_ABCDSR0, p) = Bit(pre.PIO_ABCDSR0, p)
                       /\ Bit(pio.PIO_ABCDSR1, p) = Bit(pre.PIO_ABCDSR1, p)
            /\ Written(<<"PIO_PDR", k>>)

\* A SetPeripheral call to peripheral C on part of the pins, on selectors that
\* held the opposite code on every pin.
C1_Witness ==
    /\ call.op = "PIO_SetPeripheral"
    /\ call.dwType = "PIO_PERIPH_C"
    /\ call.dwMask # {}
    /\ call.dwMask # Pins
    /\ pre.PIO_ABCDSR0 = Pins
    /\ pre.PIO_ABCDSR1 = {}

\* The types PIO_SetPeripheral names as invalid.
InvalidPeripheralTypes == {"PIO_INPUT", "PIO_OUTPUT_0", "PIO_OUTPUT_1", "PIO_NOT_A_PIN"}

\* C8: SetPeripheral with a role in {Input, OutputLow, OutputHigh, NotAPin}
\* writes the mask to the interrupt-disable register and makes no other
\* register write: the selector registers and the pin-disable register are
\* left alone.
C8_SetPeripheralInvalidRole ==
    (call.op = "PIO_SetPeripheral" /\ call.dwType \in InvalidPeripheralTypes) =>
        /\ trace = << <<"PIO_IDR", call.dwMask>> >>
        /\ pio.PIO_ABCDSR0 = pre.PIO_ABCDSR0
        /\ pio.PIO_ABCDSR1 = pre.PIO_ABCDSR1
        /\ pio.PIO_PSR = pre.PIO_PSR

\* A SetPeripheral call with NotAPin on pins that were under PIO control, with
\* selector bits set.
C8_Witness ==
    /\ call.op = "PIO_SetPeripheral"
    /\ call.dwType = "PIO_NOT_A_PIN"
    /\ call.dwMask \cap pre.PIO_PSR # {}
    /\ pre.PIO_ABCDSR0 # {}
    /\ Len(trace) = 1

\* The roles Configure accepts.
ConfigurableTypes == PeriphTypes \cup OutputTypes \cup {"PIO_INPUT"}

\* C2: Configure returns success exactly for the roles Input, OutputLow,
\* OutputHigh and PeripheralA to PeripheralD; for any other role it returns
\* failure, writes no register and leaves every register unchanged.
C2_ConfigureResult ==
    (call.op = "PIO_Configure") =>
        /\ ret \in {0, 1}
        /\ (ret = 1) <=> (call.dwType \in ConfigurableTypes)
        /\ (call.dwType \notin ConfigurableTypes) =>
               (ret = 0 /\ trace = <<>> /\ pio = pre)

\* A Configure call with NotAPin, a non-empty mask and every attribute, that
\* returned failure.
C2_Witness ==
    /\ call.op = "PIO_Configure"
    /\ call.dwType = "PIO_NOT_A_PIN"
    /\ call.dwMask # {}
    /\ call.dwAttribute = AttributeFlags
    /\ ret = 0

\* C7: for a peripheral role Configure returns success and its writes are, in
\* order, interrupt-disable, selector0, selector1, pin-disable,
\* interrupt-disable, then pull-up-enable (PullUp set) or pull-up-disable
\* (PullUp clear); no other attribute causes a write.
C7_ConfigurePeripheralTrace ==
    (call.op = "PIO_Configure" /\ call.dwType \in PeriphTypes) =>
        LET k == call.dwMask
        IN  /\ ret = 1
            /\ trace = << <<"PIO_IDR", k>>,
                          <<"PIO_ABCDSR0", pio.PIO_ABCDSR0>>,
                          <<"PIO_ABCDSR1", pio.PIO_ABCDSR1>>,
                          <<"PIO_PDR", k>>,
                          <<"PIO_IDR", k>>,
                          <<IF "PIO_PULLUP" \in call.dwAttribute
                            THEN "PIO_PUER" ELSE "PIO_PUDR", k>> >>

\* A Configure call to peripheral B with every attribute but PullUp.
C7_Witness ==
    /\ call.op = "PIO_Configure"
    /\ call.dwType = "PIO_PERIPH_B"
    /\ call.dwMask # {}
    /\ call.dwAttribute = AttributeFlags \ {"PIO_PULLUP"}
    /\ TraceRegs[6] = "PIO_PUDR"

\* The writes the specification gives for SetInput(k, a).
ExpectedSetInputTrace(k, a) ==
    << <<"PIO_IDR", k>>,
       <<IF "PIO_PULLUP" \in a THEN "PIO_PUER" ELSE "PIO_PUDR", k>>,
       <<IF "PIO_DEGLITCH" \in a \/ "PIO_DEBOUNCE" \in a
         THEN "PIO_IFER" ELSE "PIO_IFDR", k>> >>
    \o (IF "PIO_DEGLITCH" \in a THEN << <<"PIO_IFSCDR", k>> >>
        ELSE IF "PIO_DEBOUNCE" \in a THEN << <<"PIO_IFSCER", k>> >>
        ELSE <<>>)
    \o << <<"PIO_ODR", k>>, <<"PIO_PER", k>> >>

\* C3: SetInput writes the mask, in this order and nothing else, to
\* interrupt-disable; pull-up-enable or -disable; input-filter-enable or
\* -disable; the deglitch selection if Deglitch is set (also with Debounce),
\* else the debounce selection if Debounce is set; output-disable;
\* pin-enable.  The debounce divider is never written.
C3_SetInputTrace ==
    (call.op = "PIO_SetInput") =>
        /\ trace = ExpectedSetInputTrace(call.dwMask, call.dwAttribute)
        /\ \A i \in 1 .. Len(trace) : trace[i][1] # "PIO_SCDR"
        /\ pio.PIO_SCDR = pre.PIO_SCDR

\* A SetInput call asking for both Deglitch and Debounce.
C3_Witness ==
    /\ call.op = "PIO_SetInput"
    /\ {"PIO_DEGLITCH", "PIO_DEBOUNCE"} \subseteq call.dwAttribute
    /\ call.dwMask # {}
    /\ Len(trace) = 6

\* The writes the specification gives for SetOutput(k, high, openDrain, pullUp).
ExpectedSetOutputTrace(k, high, openDrain, pullUp) ==
    << <<"PIO_IDR", k>>,
       <<IF pullUp THEN "PIO_PUER" ELSE "PIO_PUDR", k>>,
       <<IF openDrain THEN "PIO_MDER" ELSE "PIO_MDDR", k>>,
       <<IF high THEN "PIO_SODR" ELSE "PIO_CODR", k>>,
       <<"PIO_OER", k>>,
       <<"PIO_PER", k>> >>

\* C4: SetOutput writes the mask, in this order, to interrupt-disable;
\* pull-up-enable or -disable; multi-drive-enable or -disable; set-output or
\* clear-output; output-enable; pin-enable.  The level is written before
\* output-enable.
C4_SetOutputTrace ==
    (call.op = "PIO_SetOutput") =>
        /\ trace = ExpectedSetOutputTrace(call.dwMask, call.dwDefaultValue,
                                          call.dwMultiDriveEnable, call.dwPullUpEnable)
        /\ \A i, j \in 1 .. Len(trace) :
               (trace[i][1] \in {"PIO_SODR", "PIO_CODR"} /\ trace[j][1] = "PIO_OER")
                   => i < j

\* A SetOutput call with a high default level and open drain on pins that
\* were neither outputs nor latched high.
C4_Witness ==
    /\ call.op = "PIO_SetOutput"
    /\ call.dwDefaultValue
    /\ call.dwMultiDriveEnable
    /\ call.dwMask # {}
    /\ call.dwMask \cap (pre.PIO_OSR \cup pre.PIO_ODSR) = {}
    /\ call.dwMask \subseteq (pio.PIO_OSR \cap pio.PIO_ODSR)

\* C5 as first stated: GetOutputDataStatus(handle, m) returns true only when
\* the pin-status bit and the output-status bit are both set for every bit of
\* m, and false if either is clear for any bit of m.
C5_EveryBitOfMask ==
    (call.op = "PIO_GetOutputDataStatus") =>
        LET k == call.dwMask
        IN  /\ (ret = 1) => \A b \in k : b \in pre.PIO_PSR /\ b \in pre.PIO_OSR
            /\ (\E b \in k : b \notin pre.PIO_PSR \/ b \notin pre.PIO_OSR) => ret = 0

\* C5, amended: GetOutputDataStatus(handle, m) returns true exactly when some
\* bit of m is set in the pin-status register and some bit of m, the same or
\* another, is set in the output-status register; for a mask of one bit that
\* is when both bits of that pin are set.  It writes nothing.
C5_SomeBitOfMask ==
    (call.op = "PIO_GetOutputDataStatus") =>
        LET k == call.dwMask
        IN  /\ ret \in {0, 1}
            /\ (ret = 1) <=> /\ \E b \in k : b \in pre.PIO_PSR
                             /\ \E b \in k : b \in pre.PIO_OSR
            /\ \A b \in Pins :
                   (k = {b}) => ((ret = 1) <=> (b \in pre.PIO_PSR /\ b \in pre.PIO_OSR))
            /\ trace = <<>>
            /\ pio = pre

\* GetOutputDataStatus returned true on a mask none of whose pins is both
\* under PIO control and an output.
C5_Witness ==
    /\ call.op = "PIO_GetOutputDataStatus"
    /\ ret = 1
    /\ call.dwMask \cap pre.PIO_PSR \cap pre.PIO_OSR = {}

\* ((32768 / (2 * cutoff)) - 1) & 0x3FFF with integer division, for cutoff > 0.
SpecifiedDivider(c) ==
    LET q == IF c.hi # 0 \/ c.lo > 16384 THEN 0 ELSE 32768 \div (2 * c.lo)
    IN  (q - 1) % 16384

\* C6: for every cutoff > 0, SetDebounceFilter writes the mask to the debounce
\* filter-select register and then ((32768 / (2 * cutoff)) - 1) & 0x3FFF to
\* the debounce-divider register.
C6_DividerFrom32768 ==
    (call.op = "PIO_SetDebounceFilter" /\ ~U32IsZero(call.dwCuttOff)) =>
        trace = << <<"PIO_IFSCER", call.dwMask>>,
                   <<"PIO_SCDR", SpecifiedDivider(call.dwCuttOff)>> >>

\* 2^31 as a 32-bit value.
TwoToThe31 == U32(2 ^ 15, 0)

\* C10 as first stated: every cutoff other than 0 gives a non-zero divisor, so
\* a call with cutoff > 0 completes without a fault and writes a divider.
C10_PositiveCutoffSuffices ==
    (call.op = "PIO_SetDebounceFilter" /\ ~U32IsZero(call.dwCuttOff)) =>
        /\ ~fault
        /\ \E i \in 1 .. Len(trace) : trace[i][1] = "PIO_SCDR"

\* C10, amended: SetDebounceFilter raises a division-by-zero fault exactly
\* when cutoff is 0 or 2^31, the two values whose double is 0 modulo 2^32.
\* The faulting call has written the filter selection only and leaves the
\* divider register as it was; every other cutoff completes and writes a
\* 14-bit divider after the filter selection.
C10_FaultExactlyAtZeroOrTwoToThe31 ==
    (call.op = "PIO_SetDebounceFilter") =>
        LET c == call.dwCuttOff
        IN  /\ fault <=> (c = U32(0, 0) \/ c = TwoToThe31)
            /\ fault =>
                   /\ trace = << <<"PIO_IFSCER", call.dwMask>> >>
                   /\ pio.PIO_SCDR = pre.PIO_SCDR
            /\ ~fault =>
                   /\ Len(trace) = 2
                   /\ trace[1] = <<"PIO_IFSCER", call.dwMask>>
                   /\ trace[2][1] = "PIO_SCDR"
                   /\ trace[2][2] \in 0 .. DividerMask
                   /\ pio.PIO_SCDR = trace[2][2]

\* A SetDebounceFilter call with cutoff 2^31 that faulted, leaving the divider
\* register unwritten.
C10_Witness ==
    /\ call.op = "PIO_SetDebounceFilter"
    /\ call.dwCuttOff = TwoToThe31
    /\ call.dwMask # {}
    /\ fault
    /\ Len(trace) = 1
    /\ pre.PIO_SCDR = DividerMask

\* What the role `type` leaves of pin p in the registers regs; for a pin no
\* call configured, the state it started in.
RoleHolds(p, type, regs) ==
    CASE type = "PIO_INPUT" ->
           p \in regs.PIO_PSR /\ p \notin regs.PIO_OSR
      [] type \in OutputTypes ->
           /\ p \in regs.PIO_PSR
           /\ p \in regs.PIO_OSR
           /\ Bit(regs.PIO_ODSR, p) = IF type = "PIO_OUTPUT_1" THEN 1 ELSE 0
      [] type \in PeriphTypes ->
           /\ p \notin regs.PIO_PSR
           /\ <<Bit(regs.PIO_ABCDSR0, p), Bit(regs.PIO_ABCDSR1, p)>> = SelectorCode(type)
      [] type = "none" ->
           \A r \in {"PIO_PSR", "PIO_OSR", "PIO_ODSR", "PIO_PDSR",
                     "PIO_ABCDSR0", "PIO_ABCDSR1"} :
               Bit(regs[r], p) = Bit(initial[r], p)

\* Every pin shows the role of the most recent Configure whose mask held it.
EveryPinShowsItsLastRole ==
    \A p \in Pins : RoleHolds(p, lastConfig[p].type, pio)

\* C9 as first stated: every pin shows its last role, and Get with an output
\* role on the mask of that call returns true after OutputHigh and false after
\* OutputLow.
C9_GetOnMaskOfLastCall ==
    /\ EveryPinShowsItsLastRole
    /\ \A p \in Pins :
           (lastConfig[p].type \in OutputTypes) =>
               PIO_Get(pio, lastConfig[p].type, lastConfig[p].mask)
                   = IF lastConfig[p].type = "PIO_OUTPUT_1" THEN 1 ELSE 0

\* C9, amended: after any sequence of Configure calls every pin shows the role
\* of the most recent call whose mask held it (pins in no mask keep their
\* initial state), and Get with an output role on a mask returns true when
\* some pin of the mask was last configured OutputHigh and false when every
\* pin of the mask was last configured OutputLow.
C9_LastConfigureWins ==
    /\ EveryPinShowsItsLastRole
    /\ \A k \in Masks, t \in OutputTypes :
           /\ (\E p \in k : lastConfig[p].type = "PIO_OUTPUT_1") => PIO_Get(pio, t, k) = 1
           /\ (\A p \in k : lastConfig[p].type = "PIO_OUTPUT_0") => PIO_Get(pio, t, k) = 0

\* Two calls with overlapping masks: the first made pins 0 and 1 peripheral B,
\* the second made pin 0 a high output.
C9_Witness ==
    /\ ncalls = 2
    /\ lastConfig[0].type = "PIO_OUTPUT_1"
    /\ lastConfig[1].type = "PIO_PERIPH_B"
    /\ 0 \in lastConfig[1].mask
    /\ 1 \notin lastConfig[0].mask

====
